---- MODULE Spec2Model ----
(***************************************************************************)
(* Model of BlogSparkAgent (src/blogspark.py): the persisted agent state,  *)
(* the three-stage generation pipeline run() and the interactive loop.     *)
(*                                                                         *)
(* Python values are modelled as tagged JSON values [t, v]; a dict is a    *)
(* function from key strings to values; a list is a sequence.  Text typed  *)
(* by the user is a sequence of characters so that strip() and lower()     *)
(* are computed rather than assumed.                                       *)
(***************************************************************************)
EXTENDS Integers, Sequences, FiniteSets, TLC

VARIABLES
    pc,             \* position of the process in __main__ / run()
    state,          \* self.state (a dict once the constructor has returned)
    file,           \* agent_state.json on disk
    user_input,     \* the line read at line 156 / the argument of run()
    responses,      \* texts generate_content returned inside the current run(), in order
    analysis,       \* local `analysis` of run()
    plan_prompt,    \* prompt built by plan_task
    plan,           \* local `plan` of run()
    output_prompt,  \* prompt built by generate_output
    result,         \* value returned by run()
    now,            \* datetime.now(), as a logical instant
    fresh,          \* whether self.state descends from the defaults of lines 20-24
    updates,        \* update_state executions inside the current run()
    saved_at_plan,  \* whether file held self.state when the planner's call was issued
    runs            \* run() invocations in total (bounded)

vars == <<pc, state, file, user_input, responses, analysis, plan_prompt, plan,
          output_prompt, result, now, fresh, updates,
          saved_at_plan, runs>>

(***************************************************************************)
(* Bounds                                                                  *)
(***************************************************************************)
MaxRuns == 4

(***************************************************************************)
(* Python / JSON values                                                    *)
(***************************************************************************)
Str(s) == [t |-> "str", v |-> s]
Num(s) == [t |-> "num", v |-> s]
Obj(d) == [t |-> "obj", v |-> d]
None == [t |-> "null", v |-> ""]
EmptyDict == <<>>

\* bool(x)
Truthy(x) ==
    CASE x.t = "str" -> x.v # ""
      [] x.t = "num" -> x.v # "0"
      [] x.t = "obj" -> DOMAIN x.v # {}
      [] OTHER -> FALSE

\* d.get(k, default)
Get(d, k, default) == IF k \in DOMAIN d THEN d[k] ELSE default

\* d[k] = val
SetItem(d, k, val) == [x \in DOMAIN d \cup {k} |-> IF x = k THEN val ELSE d[x]]

\* x in lst
In(x, lst) == \E i \in 1..Len(lst) : lst[i] = x

\* str(x) as an f-string renders it
Format(x) == x.v

Min(a, b) == IF a < b THEN a ELSE b

(***************************************************************************)
(* Characters and lines of the interactive loop                            *)
(***************************************************************************)
Whitespace == {" ", "\t"}

LowerChar(c) ==
    CASE c = "E" -> "e" [] c = "X" -> "x" [] c = "I" -> "i" [] c = "T" -> "t"
      [] c = "Q" -> "q" [] c = "U" -> "u" [] OTHER -> c

\* str.lower()
Lower(s) == [i \in 1..Len(s) |-> LowerChar(s[i])]

RECURSIVE LStrip(_)
LStrip(s) == IF s # <<>> /\ Head(s) \in Whitespace THEN LStrip(Tail(s)) ELSE s

RECURSIVE RStrip(_)
RStrip(s) ==
    IF s # <<>> /\ s[Len(s)] \in Whitespace THEN RStrip(SubSeq(s, 1, Len(s) - 1)) ELSE s

\* str.strip()
Strip(s) == RStrip(LStrip(s))

ExitWords == {<<"e", "x", "i", "t">>, <<"q", "u", "i", "t">>}

\* user_input.lower() in ["exit", "quit"]
IsExit(s) == Lower(s) \in ExitWords

\* `not user_input`: the check without strip()
IsBlankNoStrip(s) == s = <<>>

\* not user_input.strip()
IsBlank(s) == Strip(s) = <<>>

\* lines the user can type
Lines ==
    { <<>>, <<" ">>, <<" ", "\t">>,
      <<"e", "x", "i", "t">>, <<"Q", "U", "I", "T">>,
      <<" ", "e", "x", "i", "t">>, <<"a", "i">> }

(***************************************************************************)
(* The generation capability                                               *)
(***************************************************************************)
SentinelPrefix == "API Error: "

\* generate_content's except branch, for three causes
Sentinels == {SentinelPrefix \o "401", SentinelPrefix \o "503", SentinelPrefix \o "timeout"}

IsSentinel(s) == s \in Sentinels

\* texts the model can return for the intent-extraction prompt
IntentTexts ==
    { "Sure! The topic is ai.",
      "5",
      "\"ai\"",
      "{\"topic\": \"ai\", \"tone\": \"casual\", \"constraints\": \"short\"}",
      " {\"topic\": \"AI\", \"tone\": \"casual\", \"constraints\": \"short\"}\n",
      "{\"topic\": \"\", \"tone\": \"neutral\", \"constraints\": \"\"}",
      "{\"tone\": \"casual\"}",
      "{\"topic\": 5, \"tone\": \"neutral\", \"constraints\": \"\"}" }

\* generate_content(prompt) for the intent-extraction prompt
IntentResponses == IntentTexts \cup {SentinelPrefix \o "401"}

\* generate_content(prompt) for the planner's prompt
PlanResponses == {"Hook + Question + Challenge", SentinelPrefix \o "503"}

\* generate_content(prompt) for the renderer's prompt
OutputResponses == {"Prompt Idea / Explore / Challenge / Tip", SentinelPrefix \o "timeout"}

Intent(topic, tone, constraints) ==
    [k \in {"topic", "tone", "constraints"} |->
        CASE k = "topic" -> topic [] k = "tone" -> tone [] OTHER -> constraints]

\* json.loads(response.strip()): ok = FALSE stands for JSONDecodeError
JsonLoads(text) ==
    CASE text = "5" -> [ok |-> TRUE, val |-> Num("5")]
      [] text = "\"ai\"" -> [ok |-> TRUE, val |-> Str("ai")]
      [] text = "{\"topic\": \"ai\", \"tone\": \"casual\", \"constraints\": \"short\"}" ->
            [ok |-> TRUE, val |-> Obj(Intent(Str("ai"), Str("casual"), Str("short")))]
      [] text = " {\"topic\": \"AI\", \"tone\": \"casual\", \"constraints\": \"short\"}\n" ->
            [ok |-> TRUE, val |-> Obj(Intent(Str("AI"), Str("casual"), Str("short")))]
      [] text = "{\"topic\": \"\", \"tone\": \"neutral\", \"constraints\": \"\"}" ->
            [ok |-> TRUE, val |-> Obj(Intent(Str(""), Str("neutral"), Str("")))]
      [] text = "{\"tone\": \"casual\"}" ->
            [ok |-> TRUE, val |-> Obj([k \in {"tone"} |-> Str("casual")])]
      [] text = "{\"topic\": 5, \"tone\": \"neutral\", \"constraints\": \"\"}" ->
            [ok |-> TRUE, val |-> Obj(Intent(Num("5"), Str("neutral"), Str("")))]
      [] OTHER -> [ok |-> FALSE, val |-> None]

FallbackIntent == Intent(Str("general"), Str("neutral"), Str(""))

\* input_understanding as it would be if it validated the three fields
InputUnderstandingStrict(text) ==
    IF JsonLoads(text).ok /\ JsonLoads(text).val.t = "obj"
       /\ {"topic", "tone", "constraints"} \subseteq DOMAIN JsonLoads(text).val.v
    THEN JsonLoads(text).val
    ELSE Obj(FallbackIntent)

\* input_understanding, given the text its generate_content call returned
InputUnderstanding(text) ==
    IF JsonLoads(text).ok THEN JsonLoads(text).val ELSE Obj(FallbackIntent)

(***************************************************************************)
(* State store                                                             *)
(***************************************************************************)
\* the dict assigned at lines 20-24
DefaultState ==
    [k \in {"history", "niches", "user_preferences"} |->
        CASE k = "history" -> <<>>
          [] k = "niches" -> <<>>
          [] OTHER -> [tone |-> Str("friendly"), complexity |-> Str("medium")]]

\* a document written by an older version: no history, no user_preferences
OlderDocument == [k \in {"niches"} |-> <<Str("ai")>>]

\* json.dump(self.state, f) into a file opened with "w"
SaveState(st) == [cond |-> "json", doc |-> st]

\* what agent_state.json can be when the process starts for the first time
InitialFiles ==
    { [cond |-> "missing", doc |-> EmptyDict],
      [cond |-> "unreadable", doc |-> EmptyDict],
      [cond |-> "garbage", doc |-> EmptyDict],
      SaveState(EmptyDict),
      SaveState(OlderDocument) }

\* load_state: FileNotFoundError and JSONDecodeError are caught, any other
\* error of open() (PermissionError, ...) propagates
LoadState(f) ==
    CASE f.cond = "json" -> [raised |-> FALSE, val |-> Obj(f.doc)]
      [] f.cond \in {"missing", "garbage"} -> [raised |-> FALSE, val |-> None]
      [] OTHER -> [raised |-> TRUE, val |-> None]

(***************************************************************************)
(* update_state                                                            *)
(***************************************************************************)
\* lines 75-77
EnsureKeys(st) ==
    [k \in DOMAIN st \cup {"niches", "history"} |-> IF k \in DOMAIN st THEN st[k] ELSE <<>>]

\* lines 80-82 without the membership test
UpdateNichesNoDedup(niches, an) ==
    LET topic == Get(an, "topic", Str(""))
    IN IF Truthy(topic) THEN Append(niches, topic) ELSE niches

\* lines 80-82
UpdateNiches(niches, an) ==
    LET topic == Get(an, "topic", Str(""))
    IN IF Truthy(topic) /\ ~In(topic, niches) THEN Append(niches, topic) ELSE niches

\* lst[:3]
FirstThree(lst) == IF Len(lst) <= 3 THEN lst ELSE SubSeq(lst, 1, 3)

\* lst[-3:]
LastThree(lst) == IF Len(lst) <= 3 THEN lst ELSE SubSeq(lst, Len(lst) - 2, Len(lst))

\* the dict appended at lines 85-89
Turn(an, ts) ==
    [timestamp |-> ts, analysis |-> an, user_input |-> Get(an, "user_input", Str(""))]

\* lines 85-91
UpdateHistory(history, an, ts) == LastThree(Append(history, Turn(an, ts)))

\* self.state after lines 75-91
UpdateState(st, an, ts) ==
    LET s == EnsureKeys(st)
    IN [k \in DOMAIN s |->
          CASE k = "niches" -> UpdateNiches(s["niches"], an)
            [] k = "history" -> UpdateHistory(s["history"], an, ts)
            [] OTHER -> s[k]]

(***************************************************************************)
(* plan_task and generate_output                                           *)
(***************************************************************************)
\* line 97
HistoryTopics(st) ==
    LET history == Get(st, "history", <<>>)
    IN [i \in 1..Len(history) |-> Get(history[i].analysis, "topic", Str(""))]

\* str.join accepts str items only (TypeError otherwise)
CanJoin(lst) == \A i \in 1..Len(lst) : lst[i].t = "str"

RECURSIVE Join(_)
\* ', '.join(lst)
Join(lst) ==
    IF lst = <<>> THEN ""
    ELSE IF Len(lst) = 1 THEN lst[1].v
    ELSE lst[1].v \o ", " \o Join(Tail(lst))

\* whether plan_task raises before it reaches generate_content (line 108)
PlanTaskRaises(st) == ~CanJoin(Get(st, "niches", <<>>))

\* the prompt of lines 99-119, by its interpolated parts
PlanPrompt(st, an) ==
    [topic |-> Format(Get(an, "topic", Str("general"))),
     tone |-> Format(Get(an, "tone", Str("neutral"))),
     constraints |-> Format(Get(an, "constraints", Str("none"))),
     niches |-> Join(Get(st, "niches", <<>>)),
     last_prompts |-> HistoryTopics(st),
     tone_step |-> IF Get(an, "tone", None) = Str("casual")
                   THEN "Use emojis for casual" ELSE "Be concise for professional"]

\* the prompt of lines 123-137, by its interpolated parts
OutputPrompt(st, p) ==
    [plan |-> p,
     tone |-> Format(Get(Get(st, "user_preferences", EmptyDict), "tone", Str("friendly")))]

\* generate_output echoing the plan it was given
GenerateOutputEcho(p, text) == p

\* generate_output returns what generate_content returned
GenerateOutputResult(p, text) == text

\* plan_task returns what generate_content returned
PlanTaskResult(text) == text

(***************************************************************************)
(* The process: __init__, the loop of lines 154-167, and run()             *)
(***************************************************************************)
\* the locals of run() are gone once it has returned or raised
NoLocals ==
    /\ responses' = <<>>
    /\ analysis' = None
    /\ plan_prompt' = EmptyDict
    /\ plan' = ""
    /\ output_prompt' = EmptyDict
    /\ result' = ""
    /\ updates' = 0
    /\ saved_at_plan' = FALSE

Init ==
    /\ pc = "start"
    /\ state = EmptyDict
    /\ file \in InitialFiles
    /\ user_input = <<>>
    /\ responses = <<>>
    /\ analysis = None
    /\ plan_prompt = EmptyDict
    /\ plan = ""
    /\ output_prompt = EmptyDict
    /\ result = ""
    /\ now = 1
    /\ fresh = FALSE
    /\ updates = 0
    /\ saved_at_plan = FALSE
    /\ runs = 0

\* BlogSparkAgent(): load_state raises
ConstructRaises ==
    /\ pc = "start"
    /\ LoadState(file).raised
    /\ pc' = "ctor_raised"
    /\ UNCHANGED <<state, file, user_input, responses, analysis, plan_prompt, plan,
                   output_prompt, result, now, fresh, updates, saved_at_plan, runs>>

\* BlogSparkAgent(): `not self.state`, so defaults are assigned and saved
ConstructDefaults ==
    /\ pc = "start"
    /\ ~LoadState(file).raised
    /\ ~Truthy(LoadState(file).val)
    /\ state' = DefaultState
    /\ file' = SaveState(DefaultState)
    /\ fresh' = TRUE
    /\ pc' = "idle"
    /\ UNCHANGED <<user_input, responses, analysis, plan_prompt, plan,
                   output_prompt, result, now, updates, saved_at_plan, runs>>

\* BlogSparkAgent(): the loaded document is kept
ConstructLoaded ==
    /\ pc = "start"
    /\ ~LoadState(file).raised
    /\ Truthy(LoadState(file).val)
    /\ state' = LoadState(file).val.v
    /\ pc' = "idle"
    /\ UNCHANGED <<file, user_input, responses, analysis, plan_prompt, plan,
                   output_prompt, result, now, fresh, updates, saved_at_plan, runs>>

\* line 156: input("You: ")
MainInput ==
    /\ pc = "idle"
    /\ \E line \in Lines : user_input' = line
    /\ pc' = "read"
    /\ UNCHANGED <<state, file, responses, analysis, plan_prompt, plan,
                   output_prompt, result, now, fresh, updates, saved_at_plan, runs>>

\* lines 157-158: exit / quit leaves the loop
MainExit ==
    /\ pc = "read"
    /\ IsExit(user_input)
    /\ pc' = "ended"
    /\ UNCHANGED <<state, file, user_input, responses, analysis, plan_prompt, plan,
                   output_prompt, result, now, fresh, updates, saved_at_plan, runs>>

\* lines 159-161: "Please enter a valid request", continue
MainReject ==
    /\ pc = "read"
    /\ ~IsExit(user_input)
    /\ IsBlank(user_input)
    /\ pc' = "idle"
    /\ UNCHANGED <<state, file, user_input, responses, analysis, plan_prompt, plan,
                   output_prompt, result, now, fresh, updates, saved_at_plan, runs>>

\* line 162: agent.run(user_input) is entered
MainCallRun ==
    /\ pc = "read"
    /\ ~IsExit(user_input)
    /\ ~IsBlank(user_input)
    /\ runs < MaxRuns
    /\ pc' = "run"
    /\ runs' = runs + 1
    /\ UNCHANGED <<state, file, user_input, responses, analysis, plan_prompt,
                   plan, output_prompt, result, now, fresh, updates, saved_at_plan>>

\* line 141: input_understanding
RunInputUnderstanding ==
    /\ pc = "run"
    /\ \E text \in IntentResponses :
        /\ responses' = Append(responses, text)
        /\ analysis' = InputUnderstanding(text)
    /\ pc' = "understood"
    /\ UNCHANGED <<state, file, user_input, plan_prompt, plan, output_prompt,
                   result, now, fresh, updates, saved_at_plan, runs>>

\* line 142: analysis["user_input"] = user_input, on a dict
RunSetUserInput ==
    /\ pc = "understood"
    /\ analysis.t = "obj"
    /\ analysis' = Obj(SetItem(analysis.v, "user_input", Str(user_input)))
    /\ pc' = "annotated"
    /\ UNCHANGED <<state, file, user_input, responses, plan_prompt, plan,
                   output_prompt, result, now, fresh, updates, saved_at_plan, runs>>

\* line 142: item assignment on a str or a number is a TypeError
RunSetUserInputRaises ==
    /\ pc = "understood"
    /\ analysis.t # "obj"
    /\ pc' = "raised"
    /\ UNCHANGED <<state, file, user_input, responses, analysis, plan_prompt, plan,
                   output_prompt, result, now, fresh, updates, saved_at_plan, runs>>

\* line 143 with save_state called before the mutation
RunUpdateStateSaveFirst ==
    /\ pc = "annotated"
    /\ file' = SaveState(state)
    /\ state' = UpdateState(state, analysis.v, now)
    /\ now' = now + 1
    /\ updates' = updates + 1
    /\ pc' = "updated"
    /\ UNCHANGED <<user_input, responses, analysis, plan_prompt, plan,
                   output_prompt, result, fresh, saved_at_plan, runs>>

\* line 143: update_state, save_state included
RunUpdateState ==
    /\ pc = "annotated"
    /\ state' = UpdateState(state, analysis.v, now)
    /\ file' = SaveState(state')
    /\ now' = now + 1
    /\ updates' = updates + 1
    /\ pc' = "updated"
    /\ UNCHANGED <<user_input, responses, analysis, plan_prompt, plan,
                   output_prompt, result, fresh, saved_at_plan, runs>>

\* line 144: plan_task
RunPlanTask ==
    /\ pc = "updated"
    /\ ~PlanTaskRaises(state)
    /\ plan_prompt' = PlanPrompt(state, analysis.v)
    /\ saved_at_plan' = (file = SaveState(state))
    /\ \E text \in PlanResponses :
        /\ responses' = Append(responses, text)
        /\ plan' = PlanTaskResult(text)
    /\ pc' = "planned"
    /\ UNCHANGED <<state, file, user_input, analysis, output_prompt,
                   result, now, fresh, updates, runs>>

\* line 144: ', '.join(niches) on a niche that is not a str is a TypeError
RunPlanTaskRaises ==
    /\ pc = "updated"
    /\ PlanTaskRaises(state)
    /\ pc' = "raised"
    /\ UNCHANGED <<state, file, user_input, responses, analysis, plan_prompt, plan,
                   output_prompt, result, now, fresh, updates, saved_at_plan, runs>>

\* line 145: generate_output, and run() returns
RunGenerateOutput ==
    /\ pc = "planned"
    /\ output_prompt' = OutputPrompt(state, plan)
    /\ \E text \in OutputResponses :
        /\ responses' = Append(responses, text)
        /\ result' = GenerateOutputResult(plan, text)
    /\ pc' = "returned"
    /\ UNCHANGED <<state, file, user_input, analysis, plan_prompt,
                   plan, now, fresh, updates, saved_at_plan, runs>>

\* line 163: the response is printed, back to input()
MainPrint ==
    /\ pc = "returned"
    /\ pc' = "idle"
    /\ NoLocals
    /\ UNCHANGED <<state, file, user_input, now, fresh, runs>>

\* lines 166-167: the exception is printed, back to input()
MainExcept ==
    /\ pc = "raised"
    /\ pc' = "idle"
    /\ NoLocals
    /\ UNCHANGED <<state, file, user_input, now, fresh, runs>>

\* the program is started again after the session ended
Restart ==
    /\ pc = "ended"
    /\ pc' = "start"
    /\ state' = EmptyDict
    /\ user_input' = <<>>
    /\ NoLocals
    /\ UNCHANGED <<file, now, fresh, runs>>

Next ==
    \/ ConstructRaises
    \/ ConstructDefaults
    \/ ConstructLoaded
    \/ MainInput
    \/ MainExit
    \/ MainReject
    \/ MainCallRun
    \/ RunInputUnderstanding
    \/ RunSetUserInput
    \/ RunSetUserInputRaises
    \/ RunUpdateState
    \/ RunPlanTask
    \/ RunPlanTaskRaises
    \/ RunGenerateOutput
    \/ MainPrint
    \/ MainExcept
    \/ Restart

Spec == Init /\ [][Next]_vars

(***************************************************************************)
(* Properties                                                              *)
(***************************************************************************)
History == Get(state, "history", <<>>)
Niches == Get(state, "niches", <<>>)

IntentKeys == {"topic", "tone", "constraints"}

\* the Intent part of the local `analysis`: every key but user_input
IntentOf(a) == [k \in DOMAIN a.v \ {"user_input"} |-> a.v[k]]

InRun == {"understood", "annotated", "updated", "planned", "returned", "raised"}

\* the parsed intent-extraction response is a JSON object without all three fields
LacksField ==
    /\ responses # <<>>
    /\ JsonLoads(responses[1]).ok
    /\ JsonLoads(responses[1]).val.t = "obj"
    /\ ~(IntentKeys \subseteq DOMAIN JsonLoads(responses[1]).val.v)

OnlyWhitespace(s) == \A i \in 1..Len(s) : s[i] \in Whitespace

\* C1: from a freshly initialised state, after each of N calls to run() the
\* history holds exactly min(N, 3) Turns, those of the most recent requests in
\* chronological order (the k-th request's Turn carries instant k), the
\* current request last.
C1_HistoryIsLastRequests ==
    (fresh /\ pc \in {"returned", "raised", "idle", "read"}) =>
        /\ Len(History) = Min(runs, 3)
        /\ \A i \in 1..Len(History) : History[i].timestamp = runs - Len(History) + i
        /\ pc = "returned" => History[Len(History)] = Turn(analysis.v, runs)

\* C2: niches never holds two equal entries nor an empty string, in memory
\* and in the persisted document.
C2_NichesDistinctNonEmpty ==
    /\ \A i, j \in 1..Len(Niches) : i # j => Niches[i] # Niches[j]
    /\ \A i \in 1..Len(Niches) : Niches[i] # Str("")
    /\ file.cond = "json" =>
          LET saved == Get(file.doc, "niches", <<>>)
          IN /\ \A i, j \in 1..Len(saved) : i # j => saved[i] # saved[j]
             /\ \A i \in 1..Len(saved) : saved[i] # Str("")

\* update_state has just handled an intent without topic while the history
\* already held the same topic twice
C2_Witness ==
    /\ pc = "updated"
    /\ ~Truthy(Get(analysis.v, "topic", Str("")))
    /\ Len(History) = 3
    /\ HistoryTopics(state)[1] = Str("ai")
    /\ HistoryTopics(state)[2] = Str("ai")
    /\ Niches = <<Str("ai")>>

\* C3: when the intent-extraction response is not parseable JSON, run() does
\* not raise and the Intent used downstream is the fallback Intent.
C3_NonJsonStillCompletes ==
    (pc \in InRun /\ ~JsonLoads(responses[1]).ok) =>
        /\ pc # "raised"
        /\ IntentOf(analysis) = FallbackIntent

\* C4: when every generation call of a run() returned an error sentinel, the
\* Intent is the fallback, the renderer's prompt embeds the planner's sentinel
\* unchanged and run() returns exactly the sentinel of the third call.
C4_SentinelPassThrough ==
    /\ (pc \in InRun /\ IsSentinel(responses[1])) => IntentOf(analysis) = FallbackIntent
    /\ (pc = "returned" /\ IsSentinel(responses[2])) => output_prompt.plan = responses[2]
    /\ (pc = "returned" /\ \A i \in 1..3 : IsSentinel(responses[i])) =>
            /\ Len(responses) = 3
            /\ result = responses[3]

\* run() returned after three sentinels
C4_Witness ==
    /\ pc = "returned"
    /\ \A i \in 1..3 : IsSentinel(responses[i])
    /\ responses[2] # responses[3]

\* C5: run() never raises, whatever the intent-extraction call returns and
\* whatever state earlier calls persisted.
C5_RunNeverRaises == pc # "raised"

\* C6 (as claimed): a parsed object lacking a field is replaced by the
\* fallback Intent.
C6_MissingFieldsFallBack ==
    (pc \in InRun /\ LacksField) => IntentOf(analysis) = FallbackIntent

\* C6 (amended): a parsed object lacking a field is returned as parsed, the
\* persisted Turn embeds it with the fields still missing, and a missing
\* field is defaulted only where it is read: the planner's prompt shows
\* general / neutral / none and lists "" as the request's history topic.
C6_MissingFieldsKept ==
    (pc \in InRun /\ LacksField) =>
        LET parsed == JsonLoads(responses[1]).val.v
        IN /\ IntentOf(analysis) = parsed
           /\ pc \in {"updated", "planned", "returned"} =>
                History[Len(History)].analysis = SetItem(parsed, "user_input", Str(user_input))
           /\ pc \in {"planned", "returned"} =>
                /\ "topic" \notin DOMAIN parsed => plan_prompt.topic = "general"
                /\ "tone" \notin DOMAIN parsed => plan_prompt.tone = "neutral"
                /\ "constraints" \notin DOMAIN parsed => plan_prompt.constraints = "none"
                /\ plan_prompt.last_prompts[Len(plan_prompt.last_prompts)] =
                      Get(parsed, "topic", Str(""))

\* the planner has been called for an object that only has a tone
C6_Witness ==
    /\ pc = "planned"
    /\ LacksField
    /\ DOMAIN JsonLoads(responses[1]).val.v = {"tone"}

\* C7: in a run() that reaches the planner, update_state ran exactly once and
\* its save had finished when the planner's call was issued; the history
\* topics in the planner's prompt end with the current request's topic.
C7_UpdateBeforePlan ==
    pc \in {"planned", "returned"} =>
        /\ updates = 1
        /\ saved_at_plan
        /\ plan_prompt.last_prompts # <<>>
        /\ plan_prompt.last_prompts[Len(plan_prompt.last_prompts)] =
              Get(analysis.v, "topic", Str(""))
        /\ plan_prompt.last_prompts = HistoryTopics(file.doc)

\* the planner was called with a full history whose oldest Turn had been evicted
C7_Witness ==
    /\ pc = "returned"
    /\ Len(plan_prompt.last_prompts) = 3
    /\ History[1].timestamp > 1
    /\ plan_prompt.last_prompts[1] # plan_prompt.last_prompts[3]

\* C8: for a missing, unreadable or invalid state file the constructor returns
\* with the defaults in memory and on disk; a valid non-empty document is
\* loaded unchanged.
C8_ConstructorRecovers ==
    [][pc = "start" =>
          /\ pc' = "idle"
          /\ file.cond \in {"missing", "unreadable", "garbage"} =>
                (state' = DefaultState /\ file' = SaveState(DefaultState))
          /\ (file.cond = "json" /\ file.doc # EmptyDict) =>
                (state' = file.doc /\ file' = file)]_vars

\* C9: a line that is empty or only whitespace does not start run(): the loop
\* is back at input() with the state, the file and the count of run() calls
\* unchanged and no generation call made.
C9_BlankInputRejected ==
    [][(pc = "read" /\ OnlyWhitespace(user_input)) =>
          /\ pc' = "idle"
          /\ state' = state
          /\ file' = file
          /\ runs' = runs
          /\ responses' = <<>>]_vars

\* a whitespace-only line was rejected after earlier requests had been served
C9_Witness ==
    /\ pc = "idle"
    /\ user_input = <<" ", "\t">>
    /\ Len(History) = 2

\* C10: whenever the agent waits for input, and from update_state's return to
\* run()'s return, the persisted document equals self.state.
C10_FileMatchesState ==
    pc \in {"idle", "read", "updated", "planned", "returned"} =>
        /\ file.cond = "json"
        /\ file.doc = state

\* run() returned after a request that added a second niche to a full history
C10_Witness ==
    /\ pc = "returned"
    /\ Len(History) = 3
    /\ Len(Niches) = 2
    /\ file.doc = state

====
